---- MODULE Spec2Model ----
(***************************************************************************)
(* A model of ezpantherlog.py: the two option callbacks that validate the  *)
(* log sample and the schema name, and main's pipeline around the external *)
(* pantherlog tool: infer, annotate and persist the schema, parse, write   *)
(* the test fixture, test.                                                 *)
(*                                                                         *)
(* Text is modelled as sequences: a sample line is a sequence of JSON      *)
(* tokens, a schema name is a sequence of characters, a captured process   *)
(* stream is a sequence of byte values.                                    *)
(***************************************************************************)
EXTENDS Integers, Sequences, FiniteSets, TLC

VARIABLES
    pc,                 \* position in the code that runs
    err,                \* type of the exception that ended the run, or NoErr
    detail,             \* what the exception's message names
    events,             \* history: external commands issued and files written
    logs,               \* the sample file: a sequence of lines
    num,                \* _validate_logs: the line number enumerate() is at
    loads,              \* _validate_logs: number of ujson.loads calls made
    retval,             \* what a callback returned
    schema_name,        \* --schema-name
    event_time_field,   \* --event-time-field
    time_format,        \* --time-format, NoTimeFormat when not given
    indicator_field,    \* --indicator-field: a tuple of (type, field) pairs
    json_field,         \* --json-field: a tuple of field names
    inferred,           \* the fields pantherlog infer writes for the sample
    schemaFile,         \* <schema_file>.yml: <<>> or <<document>>
    testFile,           \* <schema_file>_tests.yml: <<>> or <<document>>
    schema,             \* _write_schema_file: the loaded document
    i,                  \* _write_schema_file: index of the field in the loop
    sleeps,             \* _write_schema_file: turns of the polling loop
    parsed,             \* main: the completed parse command
    json_formatted_str, \* main: the fixture's result text
    sample_event,       \* main: the fixture's input text
    proc                \* _test_schema: the completed test command

logVars == <<logs, num, loads>>
optVars == <<schema_name, event_time_field, time_format, indicator_field,
             json_field, inferred>>
fileVars == <<schemaFile, testFile>>
mainVars == <<schema, i, sleeps, parsed, json_formatted_str, sample_event, proc>>
vars == <<pc, err, detail, events, retval, logVars, optVars, fileVars, mainVars>>

NoErr == "none"
None == <<>>

(***************************************************************************)
(* Bounds of the model.                                                    *)
(***************************************************************************)
MaxLines == 3

\* s[-1]
Last(s) == s[Len(s)]

(***************************************************************************)
(* Sample lines.  A line is a sequence of tokens: the braces, "k" for a    *)
(* member key with its colon, "1" for a scalar value, "," and " " for      *)
(* white space.  The line terminator is implicit.                          *)
(***************************************************************************)
Lines ==
    { <<"{", "}">>,                      \* {}
      <<"{", "k", "1", "}">>,            \* {"a":1}
      <<" ", "{", "k", "1", "}", " ">>,  \* the same, padded with blanks
      <<"{", "k", "{", "}", ",", "k", "1", "}">>,  \* a nested object
      <<"1">>,                           \* valid JSON, not an object
      <<"{", "1", "}">>,                 \* braces right, not JSON
      <<"{", "}", "{", "}">>,            \* two objects on one line
      <<"{">>,                           \* pretty-printed: opening line
      <<"k", "1", ",">>,                 \* pretty-printed: a member line
      <<"}">>,                           \* pretty-printed: closing line
      <<>> }                             \* an empty line

Whitespace == {" "}

\* str.strip(): leading and trailing white space removed.
RECURSIVE LStrip(_)
LStrip(s) == IF s # <<>> /\ Head(s) \in Whitespace THEN LStrip(Tail(s)) ELSE s

RECURSIVE RStrip(_)
RStrip(s) ==
    IF s # <<>> /\ Last(s) \in Whitespace
    THEN RStrip(SubSeq(s, 1, Len(s) - 1))
    ELSE s

Strip(s) == LStrip(RStrip(s))

EndsWith(s, c) == s # <<>> /\ Last(s) = c
StartsWithTok(s, c) == s # <<>> /\ Head(s) = c

\* The tokens of a line that are not white space, in order.
NoSpace(s) == SelectSeq(s, LAMBDA t : t \notin Whitespace)

(***************************************************************************)
(* The JSON parser on tokens.  ParseValue(t, p) is the position after the  *)
(* value that starts at p, or 0 when no value starts there.                *)
(*   value   ::= "1" | "{" "}" | "{" members "}"                           *)
(*   members ::= "k" value ( "," "k" value )*                              *)
(***************************************************************************)
RECURSIVE ParseValue(_, _), ParseMembers(_, _)
ParseValue(t, p) ==
    IF p > Len(t) THEN 0
    ELSE IF t[p] = "1" THEN p + 1
    ELSE IF t[p] = "{" THEN
        IF p + 1 <= Len(t) /\ t[p + 1] = "}" THEN p + 2
        ELSE LET q == ParseMembers(t, p + 1)
             IN  IF q # 0 /\ q <= Len(t) /\ t[q] = "}" THEN q + 1 ELSE 0
    ELSE 0

ParseMembers(t, p) ==
    IF p > Len(t) \/ t[p] # "k" THEN 0
    ELSE LET q == ParseValue(t, p + 1)
         IN  IF q = 0 THEN 0
             ELSE IF q <= Len(t) /\ t[q] = "," THEN ParseMembers(t, q + 1)
             ELSE q

\* ujson.loads(line) returns (TRUE) or raises ValueError (FALSE): the whole
\* line, white space aside, must be one JSON value.
UjsonLoadsOk(line) ==
    LET t == NoSpace(line)
    IN  t # <<>> /\ ParseValue(t, 1) = Len(t) + 1

(***************************************************************************)
(* _validate_logs                                                          *)
(***************************************************************************)
\* first_line = file.readline(): the first line, "" for an empty file.
FirstLineRead(file) == IF file = <<>> THEN <<>> ELSE Head(file)

\* for last_line in file: pass -- the last of the lines AFTER the first;
\* last_line keeps its initial str() when there is none.
LastLineRead(file) == IF Len(file) >= 2 THEN Last(file) ELSE <<>>

FirstLineOk(file) == EndsWith(Strip(FirstLineRead(file)), "}")
LastLineOk(file) == StartsWithTok(Strip(LastLineRead(file)), "{")

\* enumerate(file, start=1): the number given to the idx-th line.
LineNumberOffByOne(idx) == idx - 1
LineNumber(idx) == idx

PrettyMsg == "must be one blob per log line"

Raise(e, d) ==
    /\ pc' = "raised"
    /\ err' = e
    /\ detail' = d

\* Lines 52-69: read the first and last line and check the brackets.
CheckBrackets ==
    /\ pc = "validate_logs"
    /\ IF ~FirstLineOk(logs) \/ ~LastLineOk(logs)
       THEN /\ Raise("LogFormatError", <<PrettyMsg>>)
            /\ UNCHANGED num
       ELSE /\ pc' = "loads"
            /\ num' = 1
            /\ UNCHANGED <<err, detail>>
    /\ UNCHANGED <<logs, loads, retval, events, optVars, fileVars, mainVars>>

\* Lines 71-78: one turn of the loop, ujson.loads of the next line.
LoadLine ==
    /\ pc = "loads"
    /\ num <= Len(logs)
    /\ loads' = loads + 1
    /\ IF UjsonLoadsOk(logs[num])
       THEN /\ num' = num + 1
            /\ UNCHANGED <<pc, err, detail>>
       ELSE /\ Raise("LogFormatError", <<"line", LineNumber(num)>>)
            /\ UNCHANGED num
    /\ UNCHANGED <<logs, retval, events, optVars, fileVars, mainVars>>

\* Line 80: return value.
ReturnLogs ==
    /\ pc = "loads"
    /\ num > Len(logs)
    /\ pc' = "returned"
    /\ retval' = logs
    /\ UNCHANGED <<err, detail, logVars, events, optVars, fileVars, mainVars>>

RECURSIVE SeqsUpTo(_, _)
SeqsUpTo(S, n) ==
    IF n = 0 THEN {<<>>}
    ELSE LET shorter == SeqsUpTo(S, n - 1)
         IN  shorter \cup {Append(s, x) : s \in shorter, x \in S}

\* What _validate_logs does with a file, start to end: TRUE when it returns.
ValidateLogsReturns(file) ==
    /\ FirstLineOk(file)
    /\ LastLineOk(file)
    /\ \A k \in 1..Len(file) : UjsonLoadsOk(file[k])

Range(s) == {s[k] : k \in 1..Len(s)}

(***************************************************************************)
(* _validate_schema_name.  A name is a sequence of characters.             *)
(***************************************************************************)
MaxTail == 2

Prefix == <<"C", "u", "s", "t", "o", "m", ".">>

UpperChars ==
    {"A", "B", "C", "D", "E", "F", "G", "H", "I", "J", "K", "L", "M",
     "N", "O", "P", "Q", "R", "S", "T", "U", "V", "W", "X", "Y", "Z"}

\* str.startswith
StartsWith(s, p) == Len(s) >= Len(p) /\ SubSeq(s, 1, Len(p)) = p

\* value.partition(sep)[2]: what follows the first sep, "" when there is none.
RECURSIVE AfterFirst(_, _)
AfterFirst(s, sep) ==
    IF s = <<>> THEN <<>>
    ELSE IF Head(s) = sep THEN Tail(s)
    ELSE AfterFirst(Tail(s), sep)

\* Lines 84-85.
WithPrefix(value) == IF ~StartsWith(value, Prefix) THEN Prefix \o value ELSE value

\* Lines 84-90: the outcome of the callback on value.
SchemaNameOutcome(value) ==
    LET v == WithPrefix(value)
        rest == AfterFirst(v, ".")
    IN  IF rest = <<>> THEN [raised |-> "IndexError", value |-> v]
        ELSE IF rest[1] \notin UpperChars
             THEN [raised |-> "SchemaNameError", value |-> v]
        ELSE [raised |-> NoErr, value |-> v]

ValidateSchemaName ==
    /\ pc = "validate_schema_name"
    /\ LET out == SchemaNameOutcome(schema_name)
       IN  IF out.raised # NoErr
           THEN /\ Raise(out.raised, out.value)
                /\ UNCHANGED retval
           ELSE /\ pc' = "returned"
                /\ retval' = out.value
                /\ UNCHANGED <<err, detail>>
    /\ UNCHANGED <<events, logVars, optVars, fileVars, mainVars>>

NameHeads ==
    { <<>>,
      Prefix,
      Prefix \o Prefix,
      <<"C", "u", "s", "t", "o", "m">>,
      <<"c", "u", "s", "t", "o", "m", ".">> }

NameTailChars == {"A", "b", "."}

RawNames == {h \o t : h \in NameHeads, t \in SeqsUpTo(NameTailChars, MaxTail)}

(***************************************************************************)
(* Schema documents.  A field is a mapping from keys to values, as the     *)
(* YAML engine loads it; a document's fields are a sequence of them.       *)
(***************************************************************************)
MaxFields == 2

SetKey(f, k, v) == [x \in DOMAIN f \cup {k} |-> IF x = k THEN v ELSE f[x]]
DelKey(f, k) == [x \in DOMAIN f \ {k} |-> f[x]]
HasKey(f, k) == k \in DOMAIN f

NoTimeFormat == ""

AllNames == <<"a", "b", "c", "d">>

\* What pantherlog infer writes for a field: a scalar, an object with its
\* nested field list, a timestamp with the format it detected.
FieldShapes(n) ==
    { [name |-> n, type |-> "string"],
      [name |-> n, type |-> "object",
       fields |-> <<[name |-> "sub", type |-> "string"]>>],
      [name |-> n, type |-> "timestamp", timeFormat |-> "rfc3339"] }

RECURSIVE DocsOfLen(_)
DocsOfLen(n) ==
    IF n = 0 THEN {<<>>}
    ELSE {Append(d, f) : d \in DocsOfLen(n - 1), f \in FieldShapes(AllNames[n])}

InferredDocs == UNION {DocsOfLen(n) : n \in 1..MaxFields}

DirectiveNames == {"a", "b", "zz"}
IndicatorTypes == {"ip", "domain"}
Directives == {<<t, n>> : t \in IndicatorTypes, n \in DirectiveNames}
TimeFormats == {NoTimeFormat, "unix"}

NotLoaded == [schema |-> <<>>, fields |-> <<>>]

(***************************************************************************)
(* _is_event_time_field_missing: TRUE when a field has the name (the       *)
(* function answers "found", whatever its name says).                      *)
(***************************************************************************)
IsEventTimeFieldMissing(doc, etf) ==
    \E k \in 1..Len(doc.fields) : doc.fields[k].name = etf

(***************************************************************************)
(* _is_ioc_field_missing                                                   *)
(***************************************************************************)
\* unzipped_entries[1]: the directives' field names; list(zip(*())) is [],
\* and indexing it raises IndexError.
DirectiveFields(dirs) == [k \in 1..Len(dirs) |-> dirs[k][2]]

\* found_list after the outer loop's first k turns.
RECURSIVE FoundList(_, _, _)
FoundList(flds, names, k) ==
    IF k = 0 THEN <<>>
    ELSE FoundList(flds, names, k - 1)
         \o SelectSeq(names, LAMBDA n : flds[k].name = n)

IsIocFieldMissing(doc, dirs) ==
    IF dirs = <<>> THEN [outcome |-> "IndexError", unfound |-> {}]
    ELSE
    LET names == DirectiveFields(dirs)
        flds == doc.fields
        found_list == FoundList(flds, names, Len(flds))
    IN  IF \E k \in 1..Len(flds) : Len(FoundList(flds, names, k)) = Len(names)
        THEN [outcome |-> "return", unfound |-> {}]
        ELSE [outcome |-> "IndicatorFieldError",
              unfound |-> (Range(found_list) \ Range(names))
                          \cup (Range(names) \ Range(found_list))]

(***************************************************************************)
(* The rewrite rules of _write_schema_file's loop, on one field.           *)
(***************************************************************************)
\* Lines 390-395, with the time format always written.
EventTimeRuleAlwaysFormat(field, etf, tf) ==
    IF field.name = etf
    THEN SetKey(SetKey(SetKey(field, "isEventTime", TRUE), "type", "timestamp"),
                "timeFormat", tf)
    ELSE field

\* Lines 390-395.
EventTimeRule(field, etf, tf) ==
    IF field.name = etf
    THEN LET f1 == SetKey(SetKey(field, "isEventTime", TRUE), "type", "timestamp")
         IN  IF tf # NoTimeFormat THEN SetKey(f1, "timeFormat", tf) ELSE f1
    ELSE field

\* Lines 397-400: each matching directive assigns the one-element list.
RECURSIVE IndicatorLoop(_, _, _)
IndicatorLoop(field, dirs, k) ==
    IF k > Len(dirs) THEN field
    ELSE IndicatorLoop(
             IF field.name = dirs[k][2]
             THEN SetKey(field, "indicators", <<dirs[k][1]>>)
             ELSE field,
             dirs, k + 1)

IndicatorRule(field, dirs) ==
    IF dirs # <<>> THEN IndicatorLoop(field, dirs, 1) ELSE field

\* Lines 402-406: del field["fields"] raises KeyError when the key is absent,
\* after the type was assigned.
RECURSIVE JsonLoop(_, _, _)
JsonLoop(field, jf, k) ==
    IF k > Len(jf) THEN [field |-> field, raised |-> NoErr]
    ELSE IF field.name = jf[k]
         THEN LET f1 == SetKey(field, "type", "json")
              IN  IF HasKey(f1, "fields")
                  THEN JsonLoop(DelKey(f1, "fields"), jf, k + 1)
                  ELSE [field |-> f1, raised |-> "KeyError"]
    ELSE JsonLoop(field, jf, k + 1)

JsonCastRule(field, jf) ==
    IF jf # <<>> THEN JsonLoop(field, jf, 1) ELSE [field |-> field, raised |-> NoErr]

(***************************************************************************)
(* Captured process streams.  subprocess.run(capture_output=True) gives    *)
(* stderr and stdout as bytes; a byte is its value.                        *)
(***************************************************************************)
MaxErrLen == 4

\* The character of an ASCII byte, for the bytes the model uses.
ByteChar(b) ==
    CASE b = 80 -> "P" [] b = 65 -> "A" [] b = 83 -> "S" [] b = 70 -> "F"
      [] b = 73 -> "I" [] b = 76 -> "L"
      [] b = 112 -> "p" [] b = 97 -> "a" [] b = 114 -> "r" [] b = 115 -> "s"
      [] b = 101 -> "e" [] b = 111 -> "o" [] b = 32 -> " "
      [] b = 10 -> "\n" [] b = 92 -> "\\"

\* bytes.decode("utf-8") of ASCII bytes: one character per byte.
Decode(bytes) == [k \in 1..Len(bytes) |-> ByteChar(bytes[k])]

\* str(bytes): the bytes literal, b'...' with a line feed written \n and a
\* backslash written twice.
RECURSIVE ReprBody(_)
ReprBody(bytes) ==
    IF bytes = <<>> THEN <<>>
    ELSE (CASE Head(bytes) = 10 -> <<"\\", "n">>
            [] Head(bytes) = 92 -> <<"\\", "\\">>
            [] OTHER -> <<ByteChar(Head(bytes))>>)
         \o ReprBody(Tail(bytes))

Repr(bytes) == <<"b", "'">> \o ReprBody(bytes) \o <<"'">>

\* needle in hay
Contains(hay, needle) ==
    \E k \in 0..(Len(hay) - Len(needle)) :
        SubSeq(hay, k + 1, k + Len(needle)) = needle

PassText == <<"P", "A", "S", "S">>
ParseErrorText == <<"p", "a", "r", "s", "e", " ", "e", "r", "r", "o", "r">>

PassBytes == <<80, 65, 83, 83>>
FailBytes == <<70, 65, 73, 76>>
ParseErrorBytes == <<112, 97, 114, 115, 101, 32, 101, 114, 114, 111, 114>>

StderrBytes == {80, 65, 83, 10, 92}

NoProc == [stderr |-> <<>>, stdout |-> <<>>, returncode |-> 0]

\* Every completed test command the model considers.
AllTestProcs ==
    { [stderr |-> e, stdout |-> o, returncode |-> rc] :
        e \in SeqsUpTo(StderrBytes, MaxErrLen),
        o \in {<<>>, PassBytes},
        rc \in {0, 1} }

\* The completed test commands of a whole run.
RunTestProcs ==
    { [stderr |-> e, stdout |-> <<>>, returncode |-> rc] :
        e \in {PassBytes, FailBytes}, rc \in {0, 1} }

\* The completed parse commands of a whole run; stdout is given by its lines.
RunParseProcs ==
    { [stderr |-> e, stdout |-> o, returncode |-> 0] :
        e \in {<<>>, ParseErrorBytes},
        o \in { <<>>,
                <<<<"{", "k", "1", "}">>>>,
                <<<<"{", "k", "1", "}">>, <<"{", "k", "1">>>> } }

\* json.loads(line) returns (TRUE) or raises JSONDecodeError (FALSE).
JsonLoadsOk(line) == UjsonLoadsOk(line)

\* json.dumps(json.loads(line), indent=4): the value's tokens, blanks of the
\* source dropped, one member per line.
RECURSIVE Indented(_)
Indented(t) ==
    IF t = <<>> THEN <<>>
    ELSE (IF Head(t) = "," THEN <<",", "\n">> ELSE <<Head(t)>>) \o Indented(Tail(t))

JsonDumps(line) == Indented(NoSpace(line))

(***************************************************************************)
(* main and _write_schema_file, step by step.                              *)
(***************************************************************************)
MaxSleeps == 2

Emit(e) == events' = Append(events, e)

\* Line 368: run(infer_command).  The shell creates the schema file before
\* the tool starts, unless it cannot.
Infer ==
    /\ pc = "infer"
    /\ Emit("cmd:infer")
    /\ \E created \in BOOLEAN :
          schemaFile' = IF created THEN <<[fields |-> inferred]>> ELSE schemaFile
    /\ pc' = "poll"
    /\ UNCHANGED <<err, detail, retval, logVars, optVars, testFile, mainVars>>

\* Lines 370-371: one turn of the polling loop.
PollSleep ==
    /\ pc = "poll"
    /\ schemaFile = <<>>
    /\ sleeps < MaxSleeps
    /\ sleeps' = sleeps + 1
    /\ UNCHANGED <<pc, err, detail, events, retval, logVars, optVars, fileVars,
                   schema, i, parsed, json_formatted_str, sample_event, proc>>

\* Lines 373-377: the file rewritten with the schema name in front.
InjectName ==
    /\ pc = "poll"
    /\ schemaFile # <<>>
    /\ schemaFile' = <<SetKey(schemaFile[1], "schema", schema_name)>>
    /\ Emit("write:schema:name")
    /\ pc' = "load"
    /\ UNCHANGED <<err, detail, retval, logVars, optVars, testFile, mainVars>>

\* Lines 379-385, the missing event-time field noted but the run going on.
LoadSchemaGoesOn ==
    /\ pc = "load"
    /\ schema' = schemaFile[1]
    /\ IF IsEventTimeFieldMissing(schemaFile[1], event_time_field) = FALSE
       THEN /\ err' = "EventTimeFieldError"
            /\ detail' = <<event_time_field>>
            /\ pc' = "check_ioc"
       ELSE /\ pc' = "check_ioc"
            /\ UNCHANGED <<err, detail>>
    /\ UNCHANGED <<events, retval, logVars, optVars, fileVars,
                   i, sleeps, parsed, json_formatted_str, sample_event, proc>>

\* Lines 379-385: load the document, check the event-time field.
LoadSchema ==
    /\ pc = "load"
    /\ schema' = schemaFile[1]
    /\ IF IsEventTimeFieldMissing(schemaFile[1], event_time_field) = FALSE
       THEN Raise("EventTimeFieldError", <<event_time_field>>)
       ELSE /\ pc' = "check_ioc"
            /\ UNCHANGED <<err, detail>>
    /\ UNCHANGED <<events, retval, logVars, optVars, fileVars,
                   i, sleeps, parsed, json_formatted_str, sample_event, proc>>

\* Line 387: check the indicator directives' fields; line 389 starts the loop.
CheckIoc ==
    /\ pc = "check_ioc"
    /\ LET r == IsIocFieldMissing(schema, indicator_field)
       IN  IF r.outcome = "return"
           THEN /\ pc' = IF schema.fields = <<>> THEN "dump" ELSE "rule_time"
                /\ i' = 1
                /\ UNCHANGED <<err, detail>>
           ELSE /\ Raise(r.outcome, <<r.unfound>>)
                /\ UNCHANGED i
    /\ UNCHANGED <<events, retval, logVars, optVars, fileVars,
                   schema, sleeps, parsed, json_formatted_str, sample_event, proc>>

\* Lines 390-395, on the loop's field.
EventTimeStep ==
    /\ pc = "rule_time"
    /\ schema' = [schema EXCEPT
                    !.fields[i] = EventTimeRule(@, event_time_field, time_format)]
    /\ pc' = "rule_ioc"
    /\ UNCHANGED <<err, detail, events, retval, logVars, optVars, fileVars,
                   i, sleeps, parsed, json_formatted_str, sample_event, proc>>

\* Lines 397-400, on the loop's field.
IndicatorStep ==
    /\ pc = "rule_ioc"
    /\ schema' = [schema EXCEPT !.fields[i] = IndicatorRule(@, indicator_field)]
    /\ pc' = "rule_json"
    /\ UNCHANGED <<err, detail, events, retval, logVars, optVars, fileVars,
                   i, sleeps, parsed, json_formatted_str, sample_event, proc>>

\* Lines 402-406, on the loop's field; then the loop's next turn or its end.
JsonCastStep ==
    /\ pc = "rule_json"
    /\ LET r == JsonCastRule(schema.fields[i], json_field)
       IN  /\ schema' = [schema EXCEPT !.fields[i] = r.field]
           /\ IF r.raised # NoErr
              THEN /\ Raise(r.raised, <<"fields">>)
                   /\ UNCHANGED i
              ELSE /\ pc' = IF i = Len(schema.fields) THEN "dump" ELSE "rule_time"
                   /\ i' = i + 1
                   /\ UNCHANGED <<err, detail>>
    /\ UNCHANGED <<events, retval, logVars, optVars, fileVars,
                   sleeps, parsed, json_formatted_str, sample_event, proc>>

\* Lines 408-410: the annotated document written over the file.
DumpSchema ==
    /\ pc = "dump"
    /\ schemaFile' = <<schema>>
    /\ Emit("write:schema:annotated")
    /\ pc' = "parse"
    /\ UNCHANGED <<err, detail, retval, logVars, optVars, testFile, mainVars>>

\* Lines 319-329: run(parse_command), p the completed command.
ParseFailed(p) == Contains(Decode(p.stderr), ParseErrorText)

ParseLogs(p) ==
    /\ pc = "parse"
    /\ Emit("cmd:parse")
    /\ parsed' = p
    /\ IF ParseFailed(p)
       THEN Raise("PantherlogParseError", Decode(p.stderr))
       ELSE /\ pc' = "parse_stdout"
            /\ UNCHANGED <<err, detail>>
    /\ UNCHANGED <<retval, logVars, optVars, fileVars,
                   schema, i, sleeps, json_formatted_str, sample_event, proc>>

\* Lines 303-308: the last line of the parse command's standard output.
ParseStdout ==
    /\ pc = "parse_stdout"
    /\ LET lines == parsed.stdout
       IN  IF lines = <<>>
           THEN /\ Raise("IndexError", None)
                /\ UNCHANGED json_formatted_str
           ELSE IF ~JsonLoadsOk(Last(lines))
           THEN /\ Raise("JSONDecodeError", None)
                /\ UNCHANGED json_formatted_str
           ELSE /\ json_formatted_str' = JsonDumps(Last(lines))
                /\ pc' = "sample"
                /\ UNCHANGED <<err, detail>>
    /\ UNCHANGED <<events, retval, logVars, optVars, fileVars,
                   schema, i, sleeps, parsed, sample_event, proc>>

\* Lines 311-316: the last line of the sample.
GetSampleEvent ==
    /\ pc = "sample"
    /\ IF logs = <<>>
       THEN /\ Raise("IndexError", None)
            /\ UNCHANGED sample_event
       ELSE IF ~JsonLoadsOk(Last(logs))
       THEN /\ Raise("JSONDecodeError", None)
            /\ UNCHANGED sample_event
       ELSE /\ sample_event' = JsonDumps(Last(logs))
            /\ pc' = "write_skeleton"
            /\ UNCHANGED <<err, detail>>
    /\ UNCHANGED <<events, retval, logVars, optVars, fileVars,
                   schema, i, sleeps, parsed, json_formatted_str, proc>>

\* Lines 339-345: the fixture file with its keys and empty blocks.
WriteTestSkeleton ==
    /\ pc = "write_skeleton"
    /\ testFile' = <<[logType |-> schema_name, input |-> <<>>, result |-> <<>>]>>
    /\ Emit("write:fixture:skeleton")
    /\ pc' = "write_final"
    /\ UNCHANGED <<err, detail, retval, logVars, optVars, schemaFile, mainVars>>

\* Lines 347-353: the fixture reloaded, its two texts assigned, written back.
WriteTestFinal ==
    /\ pc = "write_final"
    /\ testFile' = <<[testFile[1] EXCEPT !.input = sample_event,
                                         !.result = json_formatted_str]>>
    /\ Emit("write:fixture:final")
    /\ pc' = "test"
    /\ UNCHANGED <<err, detail, retval, logVars, optVars, schemaFile, mainVars>>

\* Line 434, reading the captured standard output instead.
TestPassedOnStdout(p) == Contains(Repr(p.stdout), PassText)

\* Line 434: "PASS" in str(proc.stderr)
TestPassed(p) == Contains(Repr(p.stderr), PassText)

\* Lines 431-440: run(test_command), p the completed command.
TestSchema(p) ==
    /\ pc = "test"
    /\ Emit("cmd:test")
    /\ proc' = p
    /\ IF TestPassed(p)
       THEN /\ pc' = "done"
            /\ UNCHANGED <<err, detail>>
       ELSE Raise("PantherlogTestError", Decode(p.stderr))
    /\ UNCHANGED <<retval, logVars, optVars, fileVars,
                   schema, i, sleeps, parsed, json_formatted_str, sample_event>>

(***************************************************************************)
(* Initial states and specifications.                                      *)
(***************************************************************************)
MaxDirectives == 2

\* A sample, a name and directives with which every stage can succeed.
SomeLogs == <<<<"{", "k", "1", "}">>, <<"{", "k", "1", "}">>>>
SomeName == Prefix \o <<"A">>
SomeDoc == <<[name |-> "a", type |-> "string"]>>

LogsAtRest == logs = SomeLogs /\ num = 0 /\ loads = 0

OptionsAtRest ==
    /\ schema_name = SomeName
    /\ event_time_field = "a"
    /\ time_format = NoTimeFormat
    /\ indicator_field = <<<<"ip", "a">>>>
    /\ json_field = <<>>
    /\ inferred = SomeDoc

MainAtRest ==
    /\ schema = NotLoaded
    /\ i = 0
    /\ sleeps = 0
    /\ parsed = NoProc
    /\ json_formatted_str = None
    /\ sample_event = None
    /\ proc = NoProc

NoFiles == schemaFile = <<>> /\ testFile = <<>>

\* The --logs callback on any sample file.
InitLogs ==
    /\ pc = "validate_logs"
    /\ err = NoErr
    /\ detail = None
    /\ events = <<>>
    /\ retval = None
    /\ logs \in SeqsUpTo(Lines, MaxLines)
    /\ num = 0
    /\ loads = 0
    /\ OptionsAtRest
    /\ NoFiles
    /\ MainAtRest

NextLogs == CheckBrackets \/ LoadLine \/ ReturnLogs

SpecLogs == InitLogs /\ [][NextLogs]_vars

\* The --schema-name callback on any raw name.
InitName ==
    /\ pc = "validate_schema_name"
    /\ err = NoErr
    /\ detail = None
    /\ events = <<>>
    /\ retval = None
    /\ LogsAtRest
    /\ schema_name \in RawNames
    /\ event_time_field = "a"
    /\ time_format = NoTimeFormat
    /\ indicator_field = <<<<"ip", "a">>>>
    /\ json_field = <<>>
    /\ inferred = SomeDoc
    /\ NoFiles
    /\ MainAtRest

NextName == ValidateSchemaName

SpecName == InitName /\ [][NextName]_vars

\* _write_schema_file from line 379 on: the tool has written the inferred
\* document and the schema name was put in front of it.
AnnotJsonFields ==
    SeqsUpTo(DirectiveNames, 1) \cup {<<"a", "a">>, <<"a", "b">>}

InitAnnot ==
    /\ pc = "load"
    /\ err = NoErr
    /\ detail = None
    /\ events = <<"cmd:infer", "write:schema:name">>
    /\ retval = None
    /\ LogsAtRest
    /\ schema_name = SomeName
    /\ event_time_field \in DirectiveNames
    /\ time_format \in TimeFormats
    /\ indicator_field \in SeqsUpTo(Directives, MaxDirectives)
    /\ json_field \in AnnotJsonFields
    /\ inferred \in InferredDocs
    /\ schemaFile = <<[schema |-> schema_name, fields |-> inferred]>>
    /\ testFile = <<>>
    /\ MainAtRest

NextAnnot ==
    \/ LoadSchema
    \/ CheckIoc
    \/ EventTimeStep
    \/ IndicatorStep
    \/ JsonCastStep
    \/ DumpSchema

SpecAnnot == InitAnnot /\ [][NextAnnot]_vars

\* _test_schema on any completed test command, the earlier stages done.
InitTest ==
    /\ pc = "test"
    /\ err = NoErr
    /\ detail = None
    /\ events = <<"cmd:infer", "write:schema:name", "write:schema:annotated",
                  "cmd:parse", "write:fixture:skeleton", "write:fixture:final">>
    /\ retval = None
    /\ LogsAtRest
    /\ OptionsAtRest
    /\ schemaFile = <<[schema |-> SomeName, fields |-> SomeDoc]>>
    /\ testFile = <<[logType |-> SomeName, input |-> JsonDumps(Last(SomeLogs)),
                     result |-> JsonDumps(Last(SomeLogs))]>>
    /\ MainAtRest

NextTest == \E p \in AllTestProcs : TestSchema(p)

SpecTest == InitTest /\ [][NextTest]_vars

\* main, from its first stage.
RunIndicatorFields == SeqsUpTo(Directives, 1)
RunJsonFields == SeqsUpTo(DirectiveNames, 1)

Init ==
    /\ pc = "infer"
    /\ err = NoErr
    /\ detail = None
    /\ events = <<>>
    /\ retval = None
    /\ LogsAtRest
    /\ schema_name = SomeName
    /\ event_time_field \in DirectiveNames
    /\ time_format \in TimeFormats
    /\ indicator_field \in RunIndicatorFields
    /\ json_field \in RunJsonFields
    /\ inferred \in InferredDocs
    /\ NoFiles
    /\ MainAtRest

Next ==
    \/ Infer
    \/ PollSleep
    \/ InjectName
    \/ LoadSchema
    \/ CheckIoc
    \/ EventTimeStep
    \/ IndicatorStep
    \/ JsonCastStep
    \/ DumpSchema
    \/ \E p \in RunParseProcs : ParseLogs(p)
    \/ ParseStdout
    \/ GetSampleEvent
    \/ WriteTestSkeleton
    \/ WriteTestFinal
    \/ \E p \in RunTestProcs : TestSchema(p)

Spec == Init /\ [][Next]_vars

(***************************************************************************)
(* Properties.                                                             *)
(***************************************************************************)
IsPrefix(s, t) == Len(s) <= Len(t) /\ SubSeq(t, 1, Len(s)) = s

StageOrder ==
    <<"cmd:infer", "write:schema:name", "write:schema:annotated", "cmd:parse",
      "write:fixture:skeleton", "write:fixture:final", "cmd:test">>

\* C1: the commands and file writes of a run happen in the fixed order infer,
\* schema name, annotated schema, parse, fixture skeleton, fixture, test, each
\* at most once; and once a stage has raised, no command is issued, no file
\* is written and both files stay exactly as they are.
C1_StagesInOrderStopAtFirstError ==
    [][ /\ IsPrefix(events', StageOrder)
        /\ err # NoErr => /\ events' = events
                          /\ schemaFile' = schemaFile
                          /\ testFile' = testFile ]_vars

\* C1's case: the parse stage failed after the schema was annotated and
\* persisted; the schema file is on disk, the fixture was never written.
C1_Witness ==
    /\ err = "PantherlogParseError"
    /\ events = SubSeq(StageOrder, 1, 4)
    /\ schemaFile = <<schema>>
    /\ testFile = <<>>

\* The claims' reading of a sample: its first and its last line.
SampleFirst(file) == IF file = <<>> THEN <<>> ELSE file[1]
SampleLast(file) == IF file = <<>> THEN <<>> ELSE file[Len(file)]

Malformed(file) ==
    \/ ~EndsWith(Strip(SampleFirst(file)), "}")
    \/ ~StartsWithTok(Strip(SampleLast(file)), "{")
    \/ \E k \in 1..Len(file) : ~UjsonLoadsOk(file[k])

FirstBadLine(file) ==
    CHOOSE k \in 1..Len(file) :
        /\ ~UjsonLoadsOk(file[k])
        /\ \A j \in 1..(k - 1) : UjsonLoadsOk(file[j])

\* C7: on a malformed sample (first line not ending in "}", last line not
\* starting with "{", or a line that is not JSON) validation ends with
\* LogFormatError and returns nothing; the bracket error is raised before any
\* line is parsed, lines are parsed only once the brackets passed, and the
\* line number of a parse failure is that of the first line that fails.
C7_MalformedSampleFails ==
    /\ (pc \in {"returned", "raised"} /\ Malformed(logs))
          => (pc = "raised" /\ err = "LogFormatError" /\ retval = None)
    /\ (pc = "raised" /\ detail[1] = PrettyMsg) => loads = 0
    /\ loads > 0 => /\ EndsWith(Strip(SampleFirst(logs)), "}")
                    /\ StartsWithTok(Strip(SampleLast(logs)), "{")
    /\ (pc = "raised" /\ detail[1] = "line")
          => (detail[2] = FirstBadLine(logs) /\ loads = detail[2])

\* C7's case: the brackets pass and the second of three lines is not JSON.
C7_Witness ==
    /\ pc = "raised"
    /\ err = "LogFormatError"
    /\ Len(logs) = 3
    /\ detail = <<"line", 2>>

IsObjectLine(line) == UjsonLoadsOk(line) /\ StartsWithTok(Strip(line), "{")

\* C10: a sample of one or more lines, each one JSON object, is accepted:
\* validation returns and does not raise.
C10_ObjectSampleAccepted ==
    (/\ pc \in {"returned", "raised"}
     /\ Len(logs) >= 1
     /\ \A k \in 1..Len(logs) : IsObjectLine(logs[k]))
        => (pc = "returned" /\ retval = logs)

\* C9: name normalization either raises SchemaNameError or returns a name
\* that starts with "Custom." followed by an uppercase character, and
\* normalizing a returned name returns it unchanged.
C9_NameNormalized ==
    pc # "validate_schema_name" =>
        \/ pc = "raised" /\ err = "SchemaNameError"
        \/ /\ pc = "returned"
           /\ StartsWith(retval, Prefix)
           /\ Len(retval) > Len(Prefix)
           /\ retval[Len(Prefix) + 1] \in UpperChars
           /\ SchemaNameOutcome(retval) = [raised |-> NoErr, value |-> retval]

\* C8: the test stage succeeds exactly when the decoded standard error of
\* the test command contains "PASS", whatever the exit status and the
\* standard output; otherwise it raises PantherlogTestError with the whole
\* decoded standard error as detail.
C8_TestOutcomeFromStderr ==
    pc # "test" =>
        /\ pc = "done" <=> Contains(Decode(proc.stderr), PassText)
        /\ pc # "done" => /\ pc = "raised"
                          /\ err = "PantherlogTestError"
                          /\ detail = Decode(proc.stderr)

\* C8's case: standard output says PASS and the exit status is 0, standard
\* error does not say PASS, and the stage fails.
C8_Witness ==
    /\ pc = "raised"
    /\ err = "PantherlogTestError"
    /\ proc.stdout = PassBytes
    /\ proc.returncode = 0
    /\ proc.stderr # <<>>

\* The indicator check has been decided.
IocChecked ==
    \/ pc \in {"rule_time", "rule_ioc", "rule_json", "dump", "parse"}
    \/ pc = "raised" /\ err # "EventTimeFieldError"

FieldNamesOf(doc) == {doc.fields[k].name : k \in 1..Len(doc.fields)}

Unmatched == {d[2] : d \in Range(indicator_field)} \ FieldNamesOf(schema)

\* C2: for any document and any indicator directives (none, or several for
\* one field, included) the presence check raises IndicatorFieldError exactly
\* when some directive's field is not a field of the document, listing
\* exactly the unmatched names; otherwise the check passes.
C2_IndicatorCheckExact ==
    IocChecked =>
        IF Unmatched # {}
        THEN err = "IndicatorFieldError" /\ detail = <<Unmatched>>
        ELSE err \notin {"IndicatorFieldError", "IndexError"}

EventTimeFields(doc) ==
    {k \in 1..Len(doc.fields) :
        HasKey(doc.fields[k], "isEventTime") /\ doc.fields[k].isEventTime = TRUE}

\* C3: annotation raises EventTimeFieldError when no field has the
\* event-time directive's name; and when annotation succeeds, the persisted
\* document has exactly one field with isEventTime = true, the one the
\* directive names, and its type is timestamp.
C3_OneEventTimeField ==
    /\ (pc # "load" /\ event_time_field \notin FieldNamesOf(schemaFile[1]))
          => (pc = "raised" /\ err = "EventTimeFieldError")
    /\ pc = "parse" =>
          LET doc == schemaFile[1]
          IN  /\ Cardinality(EventTimeFields(doc)) = 1
              /\ \A k \in EventTimeFields(doc) :
                    /\ doc.fields[k].name = event_time_field
                    /\ doc.fields[k].type = "timestamp"

TagsFor(name) == {d[1] : d \in {x \in Range(indicator_field) : x[2] = name}}

\* C4: after annotation each field's indicators hold the tag of every
\* directive that names the field, and a field no directive names has none.
C4_IndicatorsAccumulate ==
    pc = "parse" =>
        \A k \in 1..Len(schemaFile[1].fields) :
            LET f == schemaFile[1].fields[k]
            IN  IF TagsFor(f.name) = {}
                THEN ~HasKey(f, "indicators")
                ELSE HasKey(f, "indicators") /\ Range(f.indicators) = TagsFor(f.name)

\* The loop is past field k.
RulesApplied(k) ==
    /\ pc \in {"rule_time", "rule_ioc", "rule_json", "dump", "parse"}
    /\ k < i

\* C5: the json-cast rule never raises, and a field named in the json-cast
\* set has type json and no nested field list once the rule was applied.
C5_JsonCastTotal ==
    /\ err # "KeyError"
    /\ \A k \in 1..Len(schema.fields) :
          (RulesApplied(k) /\ schema.fields[k].name \in Range(json_field))
             => /\ schema.fields[k].type = "json"
                /\ ~HasKey(schema.fields[k], "fields")

\* The event-time rule has just been applied to the loop's field, which the
\* event-time directive names.
AfterEventTimeRule ==
    /\ pc = "rule_ioc"
    /\ schema.fields[i].name = event_time_field

\* C6 as stated: after the event-time rule the named field has
\* isEventTime = true and type = timestamp, and it has a timeFormat exactly
\* when the caller supplied one, which it then equals.
C6_TimeFormatIffSupplied ==
    AfterEventTimeRule =>
        LET f == schema.fields[i]
        IN  /\ HasKey(f, "isEventTime") /\ f.isEventTime = TRUE
            /\ f.type = "timestamp"
            /\ HasKey(f, "timeFormat") <=> time_format # NoTimeFormat
            /\ time_format # NoTimeFormat => f.timeFormat = time_format

\* C6 amended: after the event-time rule the named field has
\* isEventTime = true and type = timestamp; its timeFormat is the supplied
\* format when the caller supplied one, and otherwise is what inference gave
\* the field: absent when absent, the inferred value when present.
C6_TimeFormatSuppliedOrInferred ==
    AfterEventTimeRule =>
        LET f == schema.fields[i]
            g == inferred[i]
        IN  /\ HasKey(f, "isEventTime") /\ f.isEventTime = TRUE
            /\ f.type = "timestamp"
            /\ IF time_format # NoTimeFormat
               THEN HasKey(f, "timeFormat") /\ f.timeFormat = time_format
               ELSE /\ HasKey(f, "timeFormat") <=> HasKey(g, "timeFormat")
                    /\ HasKey(g, "timeFormat") => f.timeFormat = g.timeFormat

\* C6's case: no format was supplied and the rule was applied to a field
\* that inference typed as a timestamp with the format it detected; the
\* field is the event-time field and keeps the inferred format.
C6_Witness ==
    /\ AfterEventTimeRule
    /\ time_format = NoTimeFormat
    /\ HasKey(inferred[i], "timeFormat")
    /\ HasKey(schema.fields[i], "isEventTime")
    /\ schema.fields[i].timeFormat = "rfc3339"

====
